---- MODULE Spec2Model ----
(***************************************************************************)
(* Offline-first synchronisation engine of the BART exterior-measure PWA:  *)
(* the SalesforceConnector's sync queue (a Dexie table), its drains        *)
(* (processSyncQueue, processSyncQueueBatch), the retry wrapper            *)
(* (retryOperation), the dispatch on the item type (syncItem), the records *)
(* the deliveries leave in the remote system, getQueueStatus, isOnline,    *)
(* detectConflict and syncWithConflictResolution.                          *)
(*                                                                         *)
(* Every method of SalesforceConnector is an async function: it runs       *)
(* without interruption up to its next await, and other calls may run      *)
(* between an await and its continuation.  One action of the model is one  *)
(* such uninterrupted piece.                                               *)
(***************************************************************************)
EXTENDS Integers, Sequences, FiniteSets, TLC

\* ------------------------------------------------------------------ bounds
MaxItems == 2        \* items ever stored
MaxTime == 1         \* the clock stops advancing here
MaxBatch == 1        \* largest batchSize passed to processSyncQueueBatch
MaxDrainCalls == 3   \* drains (processSyncQueue / processSyncQueueBatch calls) started
MaxRetries == 3      \* largest maxRetries passed to a retry helper
MaxOfflineDrains == 6  \* processSyncQueue calls made while the host is offline

Drains == 1 .. 2     \* the calls of a drain that may be pending at once

\* --------------------------------------------------------- program constants
MaxAttempts == 5

\* variant: the delays grow by one second
retryDelaysLinear == <<1000, 2000, 3000, 4000, 5000>>

\* variant: the schedule has four entries
retryDelaysShort == <<1000, 2000, 4000, 8000>>

retryDelays == <<1000, 2000, 4000, 8000, 16000>>

None == <<>>
Some(x) == <<x>>
Min(a, b) == IF a < b THEN a ELSE b

VARIABLES
  syncQueue,     \* db.syncQueue: primary key -> stored item
  nextId,        \* the table's auto-incremented primary key
  now,           \* the clock read by new Date()
  conn,          \* this.conn / this.config: "null" if initialize was never called
  connector,     \* how the remote system answers in this run
  drains,        \* per pending call of a drain: its position and locals
  dbQueue,       \* the drains whose delete or update the table has yet to run
  returned,      \* what the drain that returned last returned
  delivered,     \* history: per item id, remote deliveries that succeeded
  nCalls,        \* history: drains started so far
  remote,        \* the records of the remote system
  lastCall,      \* history: what the last syncItem call did
  resolution,    \* history: the last detectConflict call and what it returned
  online,        \* navigator.onLine
  status,        \* the getQueueStatus call: its position, its locals, its result
  helper         \* history: the last call of a retry helper and how it ended

vars == <<syncQueue, nextId, now, conn, connector, drains, dbQueue, returned, delivered,
          nCalls, remote, lastCall, resolution, online, status, helper>>

\* ------------------------------------------------------------- queue store
\* variant: a new item counts as tried once
NewItemTried(id, type, operation, data, t) ==
  [id |-> id, type |-> type, operation |-> operation, data |-> data,
   attempts |-> 1, lastAttempt |-> None, error |-> None, createdAt |-> t]

\* queueForSync's object literal: no lastAttempt, no error
NewItem(id, type, operation, data, t) ==
  [id |-> id, type |-> type, operation |-> operation, data |-> data,
   attempts |-> 0, lastAttempt |-> None, error |-> None, createdAt |-> t]

\* db.syncQueue.add / delete / update (update of an absent key changes nothing)
TableAdd(table, item) ==
  [k \in DOMAIN table \cup {item.id} |-> IF k = item.id THEN item ELSE table[k]]

\* variant: the delete is lost
TableDeleteKeeps(table, key) == table

TableDelete(table, key) ==
  [k \in DOMAIN table \ {key} |-> table[k]]

\* variant: the changes are applied to every stored item
TableUpdateAll(table, key, changes) ==
  [k \in DOMAIN table |-> [table[k] EXCEPT !.attempts = changes.attempts,
                                            !.lastAttempt = changes.lastAttempt,
                                            !.error = changes.error]]

\* variant: the changes are put: an absent key is stored anew
TableUpdatePuts(table, key, changes) ==
  [k \in DOMAIN table \cup {key} |->
     IF k # key THEN table[k]
     ELSE [id |-> key, type |-> "bid", operation |-> "create", data |-> "local-1",
           attempts |-> changes.attempts, lastAttempt |-> changes.lastAttempt,
           error |-> changes.error, createdAt |-> 0]]

TableUpdate(table, key, changes) ==
  IF key \in DOMAIN table
    THEN [table EXCEPT ![key] = [@ EXCEPT !.attempts = changes.attempts,
                                          !.lastAttempt = changes.lastAttempt,
                                          !.error = changes.error]]
    ELSE table

\* where('attempts') walks the index on attempts: ascending attempts, and
\* ascending primary key among equal attempts
IndexBefore(a, b) ==
  \/ a.attempts < b.attempts
  \/ a.attempts = b.attempts /\ a.id < b.id

RECURSIVE InIndexOrder(_)
InIndexOrder(S) ==
  IF S = {} THEN <<>>
  ELSE LET first == CHOOSE x \in S : \A y \in S \ {x} : IndexBefore(x, y)
       IN <<first>> \o InIndexOrder(S \ {first})

\* variant: the items at the limit are taken too
belowOrEqual(table, k) ==
  InIndexOrder({table[id] : id \in {j \in DOMAIN table : table[j].attempts <= k}})

\* .where('attempts').below(k).toArray()
below(table, k) ==
  InIndexOrder({table[id] : id \in {j \in DOMAIN table : table[j].attempts < k}})

\* variant: the limit is ignored
limitIgnored(items, n) == items

\* .limit(n)
limit(items, n) == SubSeq(items, 1, Min(n, Len(items)))

\* getQueueStatus: count() of the table, then count() of attempts >= 5 (two
\* reads: afterCount is the table as the second one finds it)
getQueueStatus(atCount, afterCount) ==
  LET total == Cardinality(DOMAIN atCount)
      failed == Cardinality({id \in DOMAIN afterCount :
                              afterCount[id].attempts >= MaxAttempts})
  IN [total |-> total, pending |-> total - failed, failed |-> failed]

\* no getQueueStatus call was made yet
NoStatus ==
  [pc |-> "idle", atCall |-> <<>>, atReturn |-> <<>>,
   result |-> [total |-> 0, pending |-> 0, failed |-> 0]]

\* ------------------------------------------------------- remote connector
Ok == "ok"
NetworkError == "Network error"                         \* no errorCode
InvalidSession == "INVALID_SESSION_ID"
ValidationError == "FIELD_CUSTOM_VALIDATION_EXCEPTION"
NotConnected == "Not connected to Salesforce"           \* no errorCode
LoginFailed == "INVALID_LOGIN"
UnknownType == "Unknown sync item type"                 \* no errorCode

Answers == {Ok, NetworkError, InvalidSession, ValidationError}

\* A run of the remote system: its answer to the first call of an operation,
\* to the second, ..., the last entry being its answer to every later call.
\* The runs of "any": any number of network errors, then any answer for
\* good, or an expired session followed by any answer for good.
Failures(n) == [k \in 1 .. n |-> NetworkError]

AnswerTails ==
  {<<x>> : x \in Answers} \cup {<<InvalidSession, x>> : x \in Answers}

RunsOf(mode) ==
  CASE mode = "alwaysOk" -> {<<Ok, Ok, Ok>>}
    [] mode = "alwaysNet" -> {<<NetworkError, NetworkError, NetworkError>>}
    [] mode = "flaky" -> {Ok, NetworkError} \X {Ok, NetworkError} \X {Ok, NetworkError}
    [] OTHER -> {Failures(j) \o tail : j \in 0 .. Len(retryDelays), tail \in AnswerTails}

\* the k-th invocation of the operation passed to retryOperation
\* (if (!this.conn) throw ... comes before the remote call)
operation(c, run, k) ==
  IF c = "null" THEN NotConnected
  ELSE IF k < Len(run) THEN run[k] ELSE run[Len(run)]

\* variant: no error code is taken for a validation error
IncludesValidationNever(e) == FALSE

\* error.errorCode?.includes('VALIDATION')
IncludesValidation(e) == e = ValidationError

\* The records of the remote system: its object, the External_Id__c it was
\* upserted under (None for a created record), its id in the remote system,
\* and (history) the queue item whose delivery made it.
RemoteRecord(records, object, externalId, item) ==
  [object |-> object, externalId |-> externalId, id |-> Cardinality(records) + 1,
   item |-> item]

\* sobject(object).upsert([{ External_Id__c: data.id, ... }], 'External_Id__c'):
\* writes the record of that external id, and makes one only if there is none
RemoteUpsert(records, object, item) ==
  IF \E r \in records : r.object = object /\ r.externalId = Some(item.data)
    THEN records
    ELSE records \cup {RemoteRecord(records, object, Some(item.data), item.id)}

\* sobject('Attachment').create({ ParentId, Name, Body, ContentType }): makes
\* a record at every call
RemoteCreate(records, object, item) ==
  records \cup {RemoteRecord(records, object, None, item.id)}

\* variant: an item whose operation is 'delete' removes the records of its
\* entity
RemoteEffectByOperation(records, item) ==
  IF item.operation = "delete"
    THEN {r \in records : r.externalId # Some(item.data)}
    ELSE CASE item.type = "property" -> RemoteUpsert(records, "Property__c", item)
           [] item.type = "quote" -> RemoteUpsert(records, "Quote__c", item)
           [] item.type = "attachment" -> RemoteCreate(records, "Attachment", item)
           [] item.type = "bid" -> RemoteUpsert(records, "Quote__c", item)
           [] OTHER -> records

\* what a successful delivery of the item leaves in the remote system
RemoteEffect(records, item) ==
  CASE item.type = "property" -> RemoteUpsert(records, "Property__c", item)
    [] item.type = "quote" -> RemoteUpsert(records, "Quote__c", item)
    [] item.type = "attachment" -> RemoteCreate(records, "Attachment", item)
    [] item.type = "bid" -> RemoteUpsert(records, "Quote__c", item)
    [] OTHER -> records

\* ----------------------------------------------------------- retry wrapper
Returned(st) == [st EXCEPT !.ok = TRUE]
Threw(st, e) == [st EXCEPT !.ok = FALSE, !.error = e]

\* variant: a failure of the call made after the re-authentication is tried
\* once more
afterReauthTwice(c, run, loginOk, st) ==
  IF ~loginOk
    THEN Threw([st EXCEPT !.reauths = @ + 1], LoginFailed)
    ELSE LET o2 == operation(c, run, st.calls + 1)
             o3 == operation(c, run, st.calls + 2)
             st3 == [st EXCEPT !.calls = @ + 1, !.reauths = @ + 1]
             st4 == [st3 EXCEPT !.calls = @ + 1]
         IN IF o2 = Ok THEN Returned(st3)
            ELSE IF o3 = Ok THEN Returned(st4) ELSE Threw(st4, o3)

\* variant: the operation is called again whether or not the login succeeded
afterReauthIgnoresLogin(c, run, loginOk, st) ==
  LET o2 == operation(c, run, st.calls + 1)
      st3 == [st EXCEPT !.calls = @ + 1, !.reauths = @ + 1]
  IN IF o2 = Ok THEN Returned(st3) ELSE Threw(st3, o2)

\* await this.initialize(this.config); return await operation()
afterReauth(c, run, loginOk, st) ==
  IF ~loginOk
    THEN Threw([st EXCEPT !.reauths = @ + 1], LoginFailed)
    ELSE LET o2 == operation(c, run, st.calls + 1)
             st3 == [st EXCEPT !.calls = @ + 1, !.reauths = @ + 1]
         IN IF o2 = Ok THEN Returned(st3) ELSE Threw(st3, o2)

RECURSIVE retryLoop(_, _, _, _, _)
retryLoop(c, run, loginOk, attempt, st) ==
  IF attempt >= Len(retryDelays) THEN Threw(st, st.lastError)
  ELSE
    LET o == operation(c, run, st.calls + 1)
        st1 == [st EXCEPT !.calls = @ + 1]
    IN IF o = Ok THEN Returned(st1)
       ELSE
         LET st2 == [st1 EXCEPT !.lastError = o]
         IN IF o = InvalidSession /\ c # "null"
              THEN afterReauth(c, run, loginOk, st2)
            ELSE IF IncludesValidation(o) THEN Threw(st2, o)
            ELSE retryLoop(c, run, loginOk, attempt + 1,
                   IF attempt < Len(retryDelays) - 1
                     THEN [st2 EXCEPT !.delays = Append(@, retryDelays[attempt + 1])]
                     ELSE st2)

\* variant: the delay of the last attempt is waited too before the error
\* is thrown
retryOperationWaitsLast(c, run, loginOk) ==
  LET r == retryLoop(c, run, loginOk, 0,
                     [ok |-> FALSE, error |-> Ok, lastError |-> Ok,
                      calls |-> 0, reauths |-> 0, delays |-> <<>>])
  IN IF ~r.ok /\ r.calls = Len(retryDelays) /\ Len(r.delays) = Len(retryDelays) - 1
       THEN [r EXCEPT !.delays = Append(@, retryDelays[Len(retryDelays)])]
       ELSE r

retryOperation(c, run, loginOk) ==
  retryLoop(c, run, loginOk, 0,
            [ok |-> FALSE, error |-> Ok, lastError |-> Ok,
             calls |-> 0, reauths |-> 0, delays |-> <<>>])

\* ------------------------------------------------------------ retry helpers
\* A run of the function a helper invokes: whether its first invocation
\* returns or throws, its second, ...; the k-th invocation returns the value k
\* or throws the error k.
HelperRuns == [1 .. MaxRetries -> {"returns", "throws"}]

\* n times x
RECURSIVE Repeat(_, _)
Repeat(x, n) == IF n <= 0 THEN <<>> ELSE <<x>> \o Repeat(x, n - 1)

NoHelperCall ==
  [delay |-> 0, maxRetries |-> 0, op |-> "none",
   run |-> [k \in 1 .. MaxRetries |-> "returns"],
   r |-> [calls |-> 0, delays |-> <<>>, ended |-> "returned", value |-> None]]

\* how a call of a helper ended: it returned value or threw it, after so
\* many invocations and these delays
Ended(how, value, calls, delays) ==
  [NoHelperCall.r EXCEPT !.calls = calls, !.delays = delays, !.ended = how,
                         !.value = value]

\* while (attempt < options.maxRetries) { try { return await
\* this.processSyncQueue() } catch { lastError = error; attempt++; if
\* (attempt < options.maxRetries) wait retryDelay } } throw lastError
RECURSIVE withRetryLoop(_, _, _, _, _, _)
withRetryLoop(maxRetries, retryDelay, run, attempt, lastError, delays) ==
  IF attempt >= maxRetries
    THEN Ended("threw", lastError, attempt, delays)
    ELSE LET k == attempt + 1
         IN IF run[k] = "returns"
              THEN Ended("returned", Some(k), k, delays)
              ELSE withRetryLoop(maxRetries, retryDelay, run, k, Some(k),
                                 IF k < maxRetries
                                   THEN Append(delays, retryDelay) ELSE delays)

\* variant: processSyncQueue is invoked once and its error thrown
processSyncQueueWithRetryOnce(maxRetries, retryDelay, run) ==
  withRetryLoop(Min(maxRetries, 1), retryDelay, run, 0, None, <<>>)

\* lastError is undefined until an invocation has thrown
processSyncQueueWithRetry(maxRetries, retryDelay, run) ==
  withRetryLoop(maxRetries, retryDelay, run, 0, None, <<>>)

\* for (attempt = 0; attempt < maxRetries; attempt++) { try { return await
\* operation() } catch { if (attempt === maxRetries - 1) throw error; wait
\* delay; delay *= 2 } }; past the loop the function returns undefined
RECURSIVE backoffLoop(_, _, _, _, _)
backoffLoop(maxRetries, delay, run, attempt, delays) ==
  IF attempt >= maxRetries
    THEN Ended("returned", None, attempt, delays)
    ELSE LET k == attempt + 1
         IN IF run[k] = "returns"
              THEN Ended("returned", Some(k), k, delays)
              ELSE IF attempt = maxRetries - 1
                THEN Ended("threw", Some(k), k, delays)
                ELSE backoffLoop(maxRetries, delay * 2, run, k, Append(delays, delay))

\* variant: the delay stays what it was
retryWithConstantDelay(maxRetries, initialDelay, run) ==
  LET r == backoffLoop(maxRetries, initialDelay, run, 0, <<>>)
  IN Ended(r.ended, r.value, r.calls, Repeat(initialDelay, Len(r.delays)))

retryWithExponentialBackoff(maxRetries, initialDelay, run) ==
  backoffLoop(maxRetries, initialDelay, run, 0, <<>>)

\* ----------------------------------------------------------------- dispatch
\* variant: the default branch goes through the retry wrapper, its operation
\* throwing at every call
syncItemRetriesUnknown(item, c, run, loginOk) ==
  IF item.type \in {"property", "quote", "attachment", "bid"}
    THEN retryOperation(c, run, loginOk)
    ELSE [retryOperation(c, Failures(Len(retryDelays)), loginOk)
            EXCEPT !.error = UnknownType]

syncItem(item, c, run, loginOk) ==
  CASE item.type = "property" -> retryOperation(c, run, loginOk)     \* upsertProperty
    [] item.type = "quote" -> retryOperation(c, run, loginOk)        \* upsertQuote
    [] item.type = "attachment" -> retryOperation(c, run, loginOk)   \* uploadAttachment
    [] item.type = "bid" -> retryOperation(c, run, loginOk)          \* upsertQuote
    [] OTHER -> [ok |-> FALSE, error |-> UnknownType, lastError |-> Ok,
                 calls |-> 0, reauths |-> 0, delays |-> <<>>]

\* what a syncItem call did: the answers its operation got, call by call,
\* how its login (if it made one) went, and how the call ended
NoCall ==
  [answers |-> <<>>, login |-> "none",
   r |-> [ok |-> FALSE, error |-> Ok, lastError |-> Ok,
          calls |-> 0, reauths |-> 0, delays |-> <<>>]]

Observed(c, run, loginOk, r) ==
  [answers |-> [k \in 1 .. r.calls |-> operation(c, run, k)],
   login |-> IF r.reauths = 0 THEN "none" ELSE IF loginOk THEN "ok" ELSE "failed",
   r |-> r]

\* ------------------------------------------------------ conflict detection
\* The values a record's lastModified may hold (the records are of type any):
\* nothing, null, a number of milliseconds since the epoch, an ISO string or
\* a Date, each of the last three standing for the instant ms.
SampleTimes == {0, 1, 500, 1000, 1001, 2000, 2001}

LastModifiedValues ==
  {[rep |-> "undefined", ms |-> 0], [rep |-> "null", ms |-> 0]}
    \cup [rep : {"number", "string", "Date"}, ms : SampleTimes]

\* !value: undefined, null and the number 0 are falsy; a Date and a non-empty
\* string are not
Falsy(value) ==
  \/ value.rep \in {"undefined", "null"}
  \/ value.rep = "number" /\ value.ms = 0

\* new Date(value).getTime()
getTime(value) == value.ms

\* variant: the difference is taken with its sign
absSigned(x) == x

\* Math.abs
abs(x) == IF x < 0 THEN -x ELSE x

detectConflict(localData, remoteData) ==
  IF Falsy(localData.lastModified) \/ Falsy(remoteData.lastModified)
    THEN FALSE
    ELSE abs(getTime(localData.lastModified) - getTime(remoteData.lastModified)) > 1000

NoResolution ==
  [op |-> "none",
   localData |-> [id |-> "local-1", lastModified |-> [rep |-> "undefined", ms |-> 0]],
   remoteData |-> [id |-> "sf-1", lastModified |-> [rep |-> "undefined", ms |-> 0]],
   hasConflict |-> FALSE]

\* --------------------------------------------------------- conflict merging
\* variant: the spread is written the other way round, local values win
spreadLocalWins(localData, remoteData) ==
  [f \in DOMAIN localData \cup DOMAIN remoteData |->
     IF f \in DOMAIN localData THEN localData[f] ELSE remoteData[f]]

\* { ...localData, ...remoteData }: the own properties of both, the later
\* spread overwriting the earlier one
spread(localData, remoteData) ==
  [f \in DOMAIN localData \cup DOMAIN remoteData |->
     IF f \in DOMAIN remoteData THEN remoteData[f] ELSE localData[f]]

\* the clock reading t as an instant in milliseconds; the sampled timestamps
\* of the records all lie before the first reading
Instant(t) == 1000000 * t

\* new Date().toISOString() when the clock reads t
toISOString(t) == [rep |-> "string", ms |-> Instant(t)]

\* variant: the records are merged whether or not a conflict was detected
syncWithConflictResolutionAlways(localData, remoteData, t) ==
  [spread(localData, remoteData) EXCEPT !.lastModified = toISOString(t)]

\* what syncWithConflictResolution returns when the clock reads t at the merge
syncWithConflictResolution(localData, remoteData, t) ==
  IF detectConflict(localData, remoteData)
    THEN [spread(localData, remoteData) EXCEPT !.lastModified = toISOString(t)]
    ELSE localData

\* ------------------------------------------------------------------ drains
NoChanges == [attempts |-> 0, lastAttempt |-> None, error |-> None]

IdleDrain ==
  [pc |-> "idle", kind |-> "all", items |-> <<>>, i |-> 0,
   results |-> [total |-> 0, success |-> 0, failed |-> 0, errors |-> <<>>],
   changes |-> NoChanges]

NothingReturned ==
  [kind |-> "none", items |-> <<>>,
   results |-> [total |-> 0, success |-> 0, failed |-> 0, errors |-> <<>>]]

\* const results = {...}: processSyncQueueBatch's has no errors
NewResults(kind, items) ==
  IF kind = "all"
    THEN [total |-> Len(items), success |-> 0, failed |-> 0, errors |-> <<>>]
    ELSE [total |-> Len(items), success |-> 0, failed |-> 0]

\* results.failed++; results.errors.push({ item, error: error.message })
RecordFailure(results, item, message) ==
  IF "errors" \in DOMAIN results
    THEN [results EXCEPT !.failed = @ + 1,
                         !.errors = Append(@, [item |-> item, error |-> message])]
    ELSE [results EXCEPT !.failed = @ + 1]

\* results.success++
RecordSuccess(results) == [results EXCEPT !.success = @ + 1]

\* variant: one failed cycle exhausts the item's attempts
FailureChangesToLimit(item, t, message) ==
  [attempts |-> MaxAttempts, lastAttempt |-> Some(t), error |-> Some(message)]

\* variant: a failed cycle is not counted
FailureChangesUncounted(item, t, message) ==
  [attempts |-> item.attempts, lastAttempt |-> Some(t), error |-> Some(message)]

\* { attempts: item.attempts + 1, lastAttempt: new Date(), error: error.message }
FailureChanges(item, t, message) ==
  [attempts |-> item.attempts + 1, lastAttempt |-> Some(t), error |-> Some(message)]

\* for (const item of items): the next item's syncItem call, or return results
NextItem(dr) ==
  IF dr.i < Len(dr.items)
    THEN [dr EXCEPT !.pc = "sync", !.i = @ + 1, !.changes = NoChanges]
    ELSE [dr EXCEPT !.pc = "done", !.changes = NoChanges]

\* variant: the first failure ends the drain
AfterFailureAborts(dr) == [dr EXCEPT !.pc = "done", !.changes = NoChanges]

\* the loop after the try branch and after the catch branch
AfterSuccess(dr) == NextItem(dr)
AfterFailure(dr) == NextItem(dr)

Active(d) == drains[d].pc # "idle"

Current(d) == drains[d].items[drains[d].i]

Dispatched == {"property", "quote", "attachment", "bid"}

\* the remote call of drain d for its current item is in flight
InFlight(d) ==
  /\ drains[d].pc = "sync"
  /\ conn # "null"
  /\ Current(d).type \in Dispatched

\* drain d goes on as dr, or returns its results
Proceed(d, dr) ==
  IF dr.pc = "done"
    THEN /\ drains' = [drains EXCEPT ![d] = IdleDrain]
         /\ returned' = [kind |-> dr.kind, items |-> dr.items, results |-> dr.results]
    ELSE /\ drains' = [drains EXCEPT ![d] = dr]
         /\ UNCHANGED returned

\* ----------------------------------------------------------------- actions
TypesInUse == {"bid"}

\* The table is durable: when the session starts (at time 1) it holds what an
\* earlier session (at time 0) left: fresh items, items one failure from the
\* limit and permanently failed items, each failed item carrying its last
\* failure's bookkeeping.
PersistedAttempts == {0, MaxAttempts - 1, MaxAttempts}

Persisted(id, attempts) ==
  [id |-> id, type |-> "bid", operation |-> "create", data |-> "local-1",
   attempts |-> attempts,
   lastAttempt |-> IF attempts = 0 THEN None ELSE Some(0),
   error |-> IF attempts = 0 THEN None ELSE Some(NetworkError),
   createdAt |-> 0]

Init ==
  /\ \E n \in 0 .. MaxItems :
       \E att \in [1 .. n -> PersistedAttempts] :
         /\ syncQueue = [id \in 1 .. n |-> Persisted(id, att[id])]
         /\ nextId = n + 1
  /\ now = 1
  /\ conn \in {"null", "set"}
  /\ connector \in {"flaky", "alwaysOk", "alwaysNet"}
  /\ drains = [d \in Drains |-> IdleDrain]
  /\ dbQueue = <<>>
  /\ returned = NothingReturned
  /\ delivered = [id \in 1 .. MaxItems |-> 0]
  /\ nCalls = 0
  /\ remote = {}
  /\ lastCall = NoCall
  /\ resolution = NoResolution
  /\ online = TRUE
  /\ status = NoStatus
  /\ helper = NoHelperCall

\* The table runs its requests in the order they were made (one transaction
\* each, all on db.syncQueue): an add or a query made while a delete or an
\* update is pending runs after it.
queueForSync(type, op, data) ==
  /\ nextId <= MaxItems
  /\ dbQueue = <<>>
  /\ \E t \in now .. Min(now + 1, MaxTime) :
       /\ now' = t
       /\ syncQueue' = TableAdd(syncQueue, NewItem(nextId, type, op, data, t))
  /\ nextId' = nextId + 1
  /\ UNCHANGED <<conn, connector, drains, dbQueue, returned, delivered, nCalls, remote,
                 lastCall, resolution, online, status, helper>>

\* a drain is called: its query runs and it goes on to its first item
DrainStarts(d, kind, items) ==
  /\ ~Active(d)
  /\ \A e \in Drains : e < d => Active(e)
  /\ nCalls < MaxDrainCalls
  /\ dbQueue = <<>>
  /\ nCalls' = nCalls + 1
  /\ Proceed(d, NextItem([pc |-> "query", kind |-> kind, items |-> items, i |-> 0,
                          results |-> NewResults(kind, items), changes |-> NoChanges]))
  /\ UNCHANGED <<syncQueue, nextId, now, conn, connector, dbQueue, delivered, remote,
                 lastCall, resolution, status, helper>>

StartDrain(d, kind, items) == DrainStarts(d, kind, items) /\ UNCHANGED online

processSyncQueue(d) == StartDrain(d, "all", below(syncQueue, MaxAttempts))

processSyncQueueBatch(d, batchSize) ==
  StartDrain(d, "batch", limit(below(syncQueue, MaxAttempts), batchSize))

\* await this.syncItem(item) settles
SyncItemSettles(d) ==
  /\ drains[d].pc = "sync"
  /\ \E run \in RunsOf(connector), loginOk \in BOOLEAN :
       LET dr == drains[d]
           item == Current(d)
           r == syncItem(item, conn, run, loginOk)
       IN /\ lastCall' = Observed(conn, run, loginOk, r)
          /\ IF r.ok
               THEN /\ drains' = [drains EXCEPT ![d].pc = "delete"]
                    /\ delivered' = [delivered EXCEPT ![item.id] = @ + 1]
                    /\ remote' = RemoteEffect(remote, item)
                    /\ UNCHANGED now
               ELSE \E t \in now .. Min(now + 1, MaxTime) :
                    /\ now' = t
                    /\ drains' = [drains EXCEPT ![d] =
                         [dr EXCEPT !.pc = "update",
                                    !.results = RecordFailure(dr.results, item, r.error),
                                    !.changes = FailureChanges(item, t, r.error)]]
                    /\ UNCHANGED <<delivered, remote>>
  /\ dbQueue' = Append(dbQueue, d)
  /\ UNCHANGED <<syncQueue, nextId, conn, connector, returned, nCalls, resolution, online, status, helper>>

\* await db.syncQueue.delete(item.id!) settles; results.success++
DeleteSettles(d) ==
  /\ drains[d].pc = "delete"
  /\ dbQueue # <<>> /\ Head(dbQueue) = d
  /\ dbQueue' = Tail(dbQueue)
  /\ syncQueue' = TableDelete(syncQueue, Current(d).id)
  /\ Proceed(d, AfterSuccess([drains[d] EXCEPT !.results = RecordSuccess(@)]))
  /\ UNCHANGED <<nextId, now, conn, connector, delivered, nCalls, remote, lastCall, resolution, online, status, helper>>

\* await db.syncQueue.update(item.id!, {...}) settles
UpdateSettles(d) ==
  /\ drains[d].pc = "update"
  /\ dbQueue # <<>> /\ Head(dbQueue) = d
  /\ dbQueue' = Tail(dbQueue)
  /\ syncQueue' = TableUpdate(syncQueue, Current(d).id, drains[d].changes)
  /\ Proceed(d, AfterFailure(drains[d]))
  /\ UNCHANGED <<nextId, now, conn, connector, delivered, nCalls, remote, lastCall, resolution, online, status, helper>>

\* getQueueStatus is called and its first count runs on the table
TotalCountSettles ==
  /\ status.pc # "failed"
  /\ dbQueue = <<>>
  /\ status' = [pc |-> "failed", atCall |-> syncQueue, atReturn |-> <<>>,
                result |-> NoStatus.result]
  /\ UNCHANGED <<syncQueue, nextId, now, conn, connector, drains, dbQueue, returned,
                 delivered, nCalls, remote, lastCall, resolution, online, helper>>

\* its second count runs on the table and it returns
FailedCountSettles ==
  /\ status.pc = "failed"
  /\ dbQueue = <<>>
  /\ status' = [pc |-> "returned", atCall |-> status.atCall, atReturn |-> syncQueue,
                result |-> getQueueStatus(status.atCall, syncQueue)]
  /\ UNCHANGED <<syncQueue, nextId, now, conn, connector, drains, dbQueue, returned,
                 delivered, nCalls, remote, lastCall, resolution, online, helper>>

Next ==
  \/ \E type \in TypesInUse : queueForSync(type, "create", "local-1")
  \/ \E d \in Drains : processSyncQueue(d)
  \/ \E d \in Drains, n \in 1 .. MaxBatch : processSyncQueueBatch(d, n)
  \/ \E d \in Drains : SyncItemSettles(d)
  \/ \E d \in Drains : DeleteSettles(d)
  \/ \E d \in Drains : UpdateSettles(d)

Spec == Init /\ [][Next]_vars

\* Every drain is awaited before the next one is called.
NextAwaited ==
  \/ \E type \in TypesInUse : queueForSync(type, "create", "local-1")
  \/ processSyncQueue(1)
  \/ \E n \in 1 .. MaxBatch : processSyncQueueBatch(1, n)
  \/ SyncItemSettles(1)
  \/ DeleteSettles(1)
  \/ UpdateSettles(1)

Sequential == Init /\ [][NextAwaited]_vars

\* getQueueStatus is called while items are enqueued and drains, each
\* awaited, deliver.
NextPolled ==
  \/ \E type \in TypesInUse : queueForSync(type, "create", "local-1")
  \/ processSyncQueue(1)
  \/ SyncItemSettles(1)
  \/ DeleteSettles(1)
  \/ UpdateSettles(1)
  \/ TotalCountSettles
  \/ FailedCountSettles

Polled == Init /\ [][NextPolled]_vars

\* isOnline
isOnline == online

\* The connectivity monitor: the host reports the transition to offline
GoesOffline ==
  /\ isOnline
  /\ online' = FALSE
  /\ UNCHANGED <<syncQueue, nextId, now, conn, connector, drains, dbQueue, returned,
                 delivered, nCalls, remote, lastCall, resolution, status, helper>>

\* the host reports the transition to online and the monitor calls
\* processSyncQueue once
GoesOnline(d) ==
  /\ ~isOnline
  /\ online' = TRUE
  /\ DrainStarts(d, "all", below(syncQueue, MaxAttempts))

NextMonitored ==
  \/ \E type \in TypesInUse : queueForSync(type, "create", "local-1")
  \/ GoesOffline
  \/ \E d \in Drains : GoesOnline(d)
  \/ \E d \in Drains : SyncItemSettles(d)
  \/ \E d \in Drains : DeleteSettles(d)
  \/ \E d \in Drains : UpdateSettles(d)

Monitored == Init /\ [][NextMonitored]_vars

\* The host flips navigator.onLine; nothing of the connector listens
onLineChanges ==
  /\ online' = ~online
  /\ UNCHANGED <<syncQueue, nextId, now, conn, connector, drains, dbQueue, returned,
                 delivered, nCalls, remote, lastCall, resolution, status, helper>>

\* Items are enqueued online and offline and drains, each awaited, are
\* called online and offline; the connector is initialized and the remote
\* system answers every call alike.
InitReconnecting == Init /\ conn = "set" /\ connector # "flaky"

NextReconnecting ==
  \/ \E type \in TypesInUse : queueForSync(type, "create", "local-1")
  \/ onLineChanges
  \/ processSyncQueue(1)
  \/ SyncItemSettles(1)
  \/ DeleteSettles(1)
  \/ UpdateSettles(1)

Reconnecting == InitReconnecting /\ [][NextReconnecting]_vars

\* variant: a drain called while navigator.onLine is false returns at once
OfflineDrainSkips(d, kind, items) ==
  /\ ~Active(d)
  /\ dbQueue = <<>>
  /\ IF kind = "all"
       THEN nCalls < MaxOfflineDrains /\ nCalls' = nCalls + 1
       ELSE UNCHANGED nCalls
  /\ Proceed(d, NextItem([pc |-> "query", kind |-> kind,
                          items |-> IF isOnline THEN items ELSE <<>>, i |-> 0,
                          results |-> NewResults(kind, IF isOnline THEN items ELSE <<>>),
                          changes |-> NoChanges]))
  /\ UNCHANGED <<syncQueue, nextId, now, conn, connector, dbQueue, delivered, remote,
                 lastCall, resolution, online, status, helper>>

\* A drain is called while the host is offline: navigator.onLine is not
\* read, the query runs and the drain goes on to its first item. Here nCalls
\* counts the processSyncQueue calls; processSyncQueueBatch is called any
\* number of times.
OfflineDrainStarts(d, kind, items) ==
  /\ ~Active(d)
  /\ dbQueue = <<>>
  /\ IF kind = "all"
       THEN nCalls < MaxOfflineDrains /\ nCalls' = nCalls + 1
       ELSE UNCHANGED nCalls
  /\ Proceed(d, NextItem([pc |-> "query", kind |-> kind, items |-> items, i |-> 0,
                          results |-> NewResults(kind, items), changes |-> NoChanges]))
  /\ UNCHANGED <<syncQueue, nextId, now, conn, connector, dbQueue, delivered, remote,
                 lastCall, resolution, online, status, helper>>

\* The host is offline from the start of the session and stays so: every
\* remote call fails with a network error. The store holds what an earlier
\* session left, and every drain is awaited before the next one is called;
\* no delivery succeeds, so no drain comes to its delete.
InitOffline ==
  /\ \E n \in 1 .. MaxItems :
       \E att \in [1 .. n -> PersistedAttempts] :
         /\ syncQueue = [id \in 1 .. n |-> Persisted(id, att[id])]
         /\ nextId = n + 1
  /\ now = 1
  /\ conn = "set"
  /\ connector = "alwaysNet"
  /\ drains = [d \in Drains |-> IdleDrain]
  /\ dbQueue = <<>>
  /\ returned = NothingReturned
  /\ delivered = [id \in 1 .. MaxItems |-> 0]
  /\ nCalls = 0
  /\ remote = {}
  /\ lastCall = NoCall
  /\ resolution = NoResolution
  /\ online = FALSE
  /\ status = NoStatus
  /\ helper = NoHelperCall

NextOffline ==
  \/ OfflineDrainStarts(1, "all", below(syncQueue, MaxAttempts))
  \/ \E n \in 1 .. MaxBatch :
       OfflineDrainStarts(1, "batch", limit(below(syncQueue, MaxAttempts), n))
  \/ SyncItemSettles(1)
  \/ UpdateSettles(1)

Offline == InitOffline /\ [][NextOffline]_vars

\* A drain called once MaxDrainCalls drains were started: the history counter
\* stays where it is.
StartLaterDrain(d, kind, items) ==
  /\ ~Active(d)
  /\ \A e \in Drains : e < d => Active(e)
  /\ nCalls = MaxDrainCalls
  /\ dbQueue = <<>>
  /\ Proceed(d, NextItem([pc |-> "query", kind |-> kind, items |-> items, i |-> 0,
                          results |-> NewResults(kind, items), changes |-> NoChanges]))
  /\ UNCHANGED <<syncQueue, nextId, now, conn, connector, dbQueue, delivered, nCalls,
                 remote, lastCall, resolution, online, status, helper>>

\* processSyncQueue / processSyncQueueBatch, called any number of times
processSyncQueueAnew(d) ==
  \/ processSyncQueue(d)
  \/ StartLaterDrain(d, "all", below(syncQueue, MaxAttempts))

processSyncQueueBatchAnew(d, batchSize) ==
  \/ processSyncQueueBatch(d, batchSize)
  \/ StartLaterDrain(d, "batch", limit(below(syncQueue, MaxAttempts), batchSize))

\* the remote system is reachable again and answers from now on
NetworkRecovers ==
  /\ connector = "alwaysNet"
  /\ connector' = "alwaysOk"
  /\ UNCHANGED <<syncQueue, nextId, now, conn, drains, dbQueue, returned, delivered,
                 nCalls, remote, lastCall, resolution, online, status, helper>>

\* Every drain is awaited before the next one is called, and drains are
\* called for ever.
NextForever ==
  \/ \E type \in TypesInUse : queueForSync(type, "create", "local-1")
  \/ processSyncQueueAnew(1)
  \/ \E n \in 1 .. MaxBatch : processSyncQueueBatchAnew(1, n)
  \/ SyncItemSettles(1)
  \/ DeleteSettles(1)
  \/ UpdateSettles(1)
  \/ NetworkRecovers

\* Every await settles.
Settling ==
  /\ WF_vars(SyncItemSettles(1))
  /\ WF_vars(DeleteSettles(1))
  /\ WF_vars(UpdateSettles(1))

\* ... and processSyncQueue keeps being called.
Live ==
  /\ Init /\ [][NextForever]_vars
  /\ Settling
  /\ WF_vars(processSyncQueueAnew(1))

\* The store at the start of a session whose earlier session enqueued items
\* of every type, none of them tried yet; 'note' stands for the types syncItem
\* has no case for.
EntityTypes == Dispatched \cup {"note"}

InitTyped ==
  /\ \E n \in 1 .. MaxItems :
       \E types \in [1 .. n -> EntityTypes] :
         /\ syncQueue = [id \in 1 .. n |-> [Persisted(id, 0) EXCEPT !.type = types[id]]]
         /\ nextId = n + 1
  /\ now = 1
  /\ conn = "set"
  /\ connector \in {"flaky", "alwaysOk"}
  /\ drains = [d \in Drains |-> IdleDrain]
  /\ dbQueue = <<>>
  /\ returned = NothingReturned
  /\ delivered = [id \in 1 .. MaxItems |-> 0]
  /\ nCalls = 0
  /\ remote = {}
  /\ lastCall = NoCall
  /\ resolution = NoResolution
  /\ online = TRUE
  /\ status = NoStatus
  /\ helper = NoHelperCall

Typed == InitTyped /\ [][Next]_vars

\* A remote system that may answer any call with success, a network error,
\* an expired session or a validation error, and a login that may fail; the
\* store holds the last item of an earlier session, and nothing is enqueued.
InitAny ==
  /\ \E att \in PersistedAttempts :
       syncQueue = [id \in {MaxItems} |-> Persisted(id, att)]
  /\ nextId = MaxItems + 1
  /\ now = 1
  /\ conn \in {"null", "set"}
  /\ connector = "any"
  /\ drains = [d \in Drains |-> IdleDrain]
  /\ dbQueue = <<>>
  /\ returned = NothingReturned
  /\ delivered = [id \in 1 .. MaxItems |-> 0]
  /\ nCalls = 0
  /\ remote = {}
  /\ lastCall = NoCall
  /\ resolution = NoResolution
  /\ online = TRUE
  /\ status = NoStatus
  /\ helper = NoHelperCall

\* The table holds a bid and, behind it, an item of a type syncItem does
\* not know, both left by an earlier session with the same number of
\* attempts.
Left(id, type, attempts, message) ==
  [Persisted(id, attempts) EXCEPT
     !.type = type,
     !.error = IF attempts = 0 THEN None ELSE Some(message)]

InitMixed ==
  /\ \E att \in PersistedAttempts :
       syncQueue = <<Left(1, "bid", att, NetworkError), Left(2, "note", att, UnknownType)>>
  /\ nextId = 3
  /\ now = 1
  /\ conn = "set"
  /\ connector \in {"any", "alwaysNet"}
  /\ drains = [d \in Drains |-> IdleDrain]
  /\ dbQueue = <<>>
  /\ returned = NothingReturned
  /\ delivered = [id \in 1 .. MaxItems |-> 0]
  /\ nCalls = 0
  /\ remote = {}
  /\ lastCall = NoCall
  /\ resolution = NoResolution
  /\ online = TRUE
  /\ status = NoStatus
  /\ helper = NoHelperCall

\* processSyncQueue is called any number of times, each call awaited
NextMixed ==
  \/ processSyncQueueAnew(1)
  \/ SyncItemSettles(1)
  \/ DeleteSettles(1)
  \/ UpdateSettles(1)

Mixed == InitMixed /\ [][NextMixed]_vars

NextDrains ==
  \/ processSyncQueue(1)
  \/ \E n \in 1 .. MaxBatch : processSyncQueueBatch(1, n)
  \/ SyncItemSettles(1)
  \/ DeleteSettles(1)
  \/ UpdateSettles(1)

Wrapped == InitAny /\ [][NextDrains]_vars

\* The operations an item may be enqueued with (SyncQueueItem.operation).
\* The store holds items of every dispatched type and every operation; the
\* remote system holds nothing, or the quote an earlier session upserted
\* for the entity of the items; a remote call may fail.
Operations == {"upsert", "delete", "create", "update"}

EarlierQuote ==
  [object |-> "Quote__c", externalId |-> Some("local-1"), id |-> 1, item |-> 0]

InitOperated ==
  /\ \E n \in 1 .. MaxItems :
       \E types \in [1 .. n -> Dispatched], ops \in [1 .. n -> Operations] :
         /\ syncQueue = [id \in 1 .. n |->
                           [Persisted(id, 0) EXCEPT !.type = types[id],
                                                    !.operation = ops[id]]]
         /\ nextId = n + 1
  /\ now = 1
  /\ conn = "set"
  /\ connector = "flaky"
  /\ drains = [d \in Drains |-> IdleDrain]
  /\ dbQueue = <<>>
  /\ returned = NothingReturned
  /\ delivered = [id \in 1 .. MaxItems |-> 0]
  /\ nCalls = 0
  /\ remote \in {{}, {EarlierQuote}}
  /\ lastCall = NoCall
  /\ resolution = NoResolution
  /\ online = TRUE
  /\ status = NoStatus
  /\ helper = NoHelperCall

Operated == InitOperated /\ [][NextDrains]_vars

\* a call of detectConflict returns (it awaits nothing)
detectConflictReturns(localData, remoteData) ==
  /\ resolution' = [op |-> "detectConflict", localData |-> localData,
                    remoteData |-> remoteData,
                    hasConflict |-> detectConflict(localData, remoteData)]
  /\ UNCHANGED <<syncQueue, nextId, now, conn, connector, drains, dbQueue, returned,
                 delivered, nCalls, remote, lastCall, online, status, helper>>

\* the records handed to detectConflict
Records(id) == [id : {id}, lastModified : LastModifiedValues]

\* a record with some of the optional fields
OptionalFields(values) == {[f \in S |-> values[f]] : S \in SUBSET DOMAIN values}

\* the local and remote versions handed to syncWithConflictResolution: the
\* local one may carry salesforceId, the remote one customerEmail, both
\* totalPrice
\* their timestamps: absent, the number 0, and three instants of which the
\* first two are 1000 ms and the last two 1 ms apart
VersionTimestamps ==
  {[rep |-> "undefined", ms |-> 0], [rep |-> "number", ms |-> 0],
   [rep |-> "string", ms |-> 1000], [rep |-> "Date", ms |-> 2000],
   [rep |-> "Date", ms |-> 2001]}

Versions(id) == {r \in Records(id) : r.lastModified \in VersionTimestamps}

LocalRecords ==
  {spread(base, extra) :
     base \in Versions("local-1"),
     extra \in OptionalFields([salesforceId |-> "sf-1", totalPrice |-> 1000])}

RemoteRecords ==
  {spread(base, extra) :
     base \in Versions("sf-1"),
     extra \in OptionalFields([totalPrice |-> 1200, customerEmail |-> "a@b.c"])}

\* syncWithConflictResolution awaits detectConflict and then, without a
\* further await, merges and stamps; it reads and writes no state of the
\* connector
syncWithConflictResolutionReturns(localData, remoteData) ==
  /\ \E t \in now .. Min(now + 1, MaxTime) :
       /\ now' = t
       /\ resolution' = [op |-> "syncWithConflictResolution",
                         localData |-> localData, remoteData |-> remoteData,
                         hasConflict |-> detectConflict(localData, remoteData),
                         at |-> t,
                         result |-> syncWithConflictResolution(localData, remoteData, t)]
  /\ UNCHANGED <<syncQueue, nextId, conn, connector, drains, dbQueue, returned,
                 delivered, nCalls, remote, lastCall, online, status, helper>>

InitConflicts ==
  /\ syncQueue = <<>>
  /\ nextId = 1
  /\ now = 1
  /\ conn = "set"
  /\ connector = "alwaysOk"
  /\ drains = [d \in Drains |-> IdleDrain]
  /\ dbQueue = <<>>
  /\ returned = NothingReturned
  /\ delivered = [id \in 1 .. MaxItems |-> 0]
  /\ nCalls = 0
  /\ remote = {}
  /\ lastCall = NoCall
  /\ resolution = NoResolution
  /\ online = TRUE
  /\ status = NoStatus
  /\ helper = NoHelperCall

NextConflicts ==
  \/ \E localData \in Records("local-1"), remoteData \in Records("sf-1") :
       detectConflictReturns(localData, remoteData)
  \/ \E localData \in LocalRecords, remoteData \in RemoteRecords :
       syncWithConflictResolutionReturns(localData, remoteData)

Conflicts == InitConflicts /\ [][NextConflicts]_vars

\* a call of a retry helper returns or throws; the helpers keep no state of
\* their own
HelperReturns(op, maxRetries, delay, run, r) ==
  /\ helper' = [NoHelperCall EXCEPT !.delay = delay, !.maxRetries = maxRetries,
                                     !.op = op, !.r = r, !.run = run]
  /\ UNCHANGED <<syncQueue, nextId, now, conn, connector, drains, dbQueue, returned,
                 delivered, nCalls, remote, lastCall, resolution, online, status>>

processSyncQueueWithRetryReturns(maxRetries, retryDelay, run) ==
  HelperReturns("processSyncQueueWithRetry", maxRetries, retryDelay, run,
                processSyncQueueWithRetry(maxRetries, retryDelay, run))

retryWithExponentialBackoffReturns(maxRetries, initialDelay, run) ==
  HelperReturns("retryWithExponentialBackoff", maxRetries, initialDelay, run,
                retryWithExponentialBackoff(maxRetries, initialDelay, run))

HelperDelays == {100, 250}

NextHelpers ==
  \/ \E maxRetries \in 0 .. MaxRetries, retryDelay \in HelperDelays, run \in HelperRuns :
       processSyncQueueWithRetryReturns(maxRetries, retryDelay, run)
  \/ \E maxRetries \in 0 .. MaxRetries, initialDelay \in HelperDelays, run \in HelperRuns :
       retryWithExponentialBackoffReturns(maxRetries, initialDelay, run)

Helpers == InitConflicts /\ [][NextHelpers]_vars

\* processSyncQueueBatch is called for ever, each call awaited, and nothing
\* is enqueued.
NextBatches ==
  \/ \E n \in 1 .. MaxBatch : processSyncQueueBatchAnew(1, n)
  \/ SyncItemSettles(1)
  \/ DeleteSettles(1)
  \/ UpdateSettles(1)
  \/ NetworkRecovers

LiveBatches ==
  /\ Init /\ [][NextBatches]_vars
  /\ Settling
  /\ WF_vars(\E n \in 1 .. MaxBatch : processSyncQueueBatchAnew(1, n))

\* ------------------------------------------------------------------ claims
Quiescent == \A d \in Drains : ~Active(d)

ErrorsOf(results) == IF "errors" \in DOMAIN results THEN results.errors ELSE <<>>

\* the item sequences of the drains under way and of the drain that returned last
Snapshots == {drains[d].items : d \in Drains} \cup {returned.items}

\* C1: at most one drain (processSyncQueue or processSyncQueueBatch) is in
\* flight at any time.
C1_SingleDrainInFlight == Cardinality({d \in Drains : Active(d)}) <= 1

\* C2: no two remote calls for the same queue item are in flight at once.
C2_NoTwoCallsForSameItem ==
  \A d, e \in Drains :
    (d # e /\ InFlight(d) /\ InFlight(e)) => Current(d).id # Current(e).id

\* C3: no item is delivered successfully more than once, and no item is still
\* in the store once a successful delivery of it and its delete have completed.
C3_ExactlyOneDelivery ==
  \A id \in 1 .. MaxItems :
    /\ delivered[id] <= 1
    /\ (/\ delivered[id] >= 1
        /\ \A d \in Drains : ~(drains[d].pc = "delete" /\ Current(d).id = id))
       => id \notin DOMAIN syncQueue

\* C4: a drain never starts a remote call for an item whose stored attempts
\* is 5 or more.
C4_ExclusionInvariant ==
  [][\A d \in Drains :
       (/\ InFlight(d)'
        /\ (drains[d].pc # "sync" \/ drains[d].i # drains'[d].i)
        /\ Current(d)'.id \in DOMAIN syncQueue')
       => syncQueue'[Current(d)'.id].attempts < MaxAttempts]_vars

\* C5: the stored attempts of an item never decreases from one state to the
\* next while the item is in the store.
C5_MonotonicAttempts ==
  [][\A id \in DOMAIN syncQueue \cap DOMAIN syncQueue' :
       syncQueue'[id].attempts >= syncQueue[id].attempts]_vars

\* C6: recording a failed delivery cycle of a stored item raises its stored
\* attempts by exactly 1.
C6_OnePerFailedCycle ==
  [][\A d \in Drains :
       (/\ drains[d].pc = "update"
        /\ drains'[d].pc # "update"
        /\ Current(d).id \in DOMAIN syncQueue)
       => /\ Current(d).id \in DOMAIN syncQueue'
          /\ syncQueue'[Current(d).id].attempts
               = syncQueue[Current(d).id].attempts + 1]_vars

\* Scenario B: the only drain so far was a processSyncQueue over the one item
\* ever stored, which had failed k times before, against a remote system that
\* answers every call with a network error.
ScenarioB(k) ==
  /\ connector = "alwaysNet"
  /\ conn = "set"
  /\ nCalls = 1
  /\ Quiescent
  /\ nextId = 2
  /\ returned.kind = "all"
  /\ Len(returned.items) = 1
  /\ returned.items[1].attempts = k

\* C7 as stated: after one processSyncQueue the fresh item is still stored with
\* attempts = 5 and its error set, the next processSyncQueue leaves it out, and
\* getQueueStatus reports failed = 1.
C7_ScenarioB_AsStated ==
  ScenarioB(0) =>
    /\ 1 \in DOMAIN syncQueue
    /\ syncQueue[1].attempts = MaxAttempts
    /\ syncQueue[1].error # None
    /\ below(syncQueue, MaxAttempts) = <<>>
    /\ getQueueStatus(syncQueue, syncQueue).failed = 1

\* C7 amended: after one processSyncQueue the fresh item is still stored with
\* attempts = 1 and its error set, the next processSyncQueue takes it again and
\* getQueueStatus reports failed = 0; the processSyncQueue in which an item fails
\* for the fifth time leaves it stored with attempts = 5, left out of the next
\* processSyncQueue, and getQueueStatus then reports failed = 1.
C7_ScenarioB ==
  /\ ScenarioB(0) =>
       /\ 1 \in DOMAIN syncQueue
       /\ syncQueue[1].attempts = 1
       /\ syncQueue[1].error = Some(NetworkError)
       /\ syncQueue[1].lastAttempt # None
       /\ below(syncQueue, MaxAttempts) = <<syncQueue[1]>>
       /\ getQueueStatus(syncQueue, syncQueue).failed = 0
       /\ returned.results.failed = 1
  /\ ScenarioB(MaxAttempts - 1) =>
       /\ 1 \in DOMAIN syncQueue
       /\ syncQueue[1].attempts = MaxAttempts
       /\ syncQueue[1].error = Some(NetworkError)
       /\ below(syncQueue, MaxAttempts) = <<>>
       /\ getQueueStatus(syncQueue, syncQueue).failed = 1

C7_Witness == ScenarioB(0) /\ syncQueue[1].attempts = 1

\* the counters of a drain account for every item it has got to
Accounted(dr) ==
  /\ dr.results.total = Len(dr.items)
  /\ dr.results.success + dr.results.failed
       = (IF dr.pc = "update" THEN dr.i ELSE IF dr.pc = "idle" THEN 0 ELSE dr.i - 1)

ScenarioAC ==
  /\ connector = "alwaysOk"
  /\ conn = "set"
  /\ nCalls = 1
  /\ Quiescent
  /\ returned.kind = "all"
  /\ Len(returned.items) = nextId - 1

\* C9: with a remote system that succeeds on every first call, one
\* processSyncQueue over n eligible items removes them all, leaves the queue
\* empty and returns total = n, success = n, failed = 0.
C9_DrainsAll ==
  /\ (connector = "alwaysOk" /\ conn = "set" /\ returned.kind = "all") =>
       /\ returned.results.success = Len(returned.items)
       /\ returned.results.failed = 0
       /\ \A j \in 1 .. Len(returned.items) :
            returned.items[j].id \notin DOMAIN syncQueue
  /\ ScenarioAC =>
       /\ syncQueue = <<>>
       /\ returned.results =
            [total |-> nextId - 1, success |-> nextId - 1, failed |-> 0,
             errors |-> <<>>]

C9_Witness == ScenarioAC /\ returned.results.total = MaxItems /\ syncQueue = <<>>

\* C10: a drain delivers its items in ascending createdAt order, whatever
\* their attempts.
C10_CreatedAtOrder ==
  \A items \in Snapshots :
    \A j, k \in 1 .. Len(items) :
      items[j].createdAt < items[k].createdAt => j < k

\* the remote system answers every call from now on
Recovered == conn = "set" /\ connector = "alwaysOk"

\* C11 as stated: if the remote system ends up answering every call, every
\* item in the store is eventually removed from it, however many drains failed
\* on it before.
C11_EventualDelivery_AsStated ==
  <>[]Recovered =>
    \A id \in 1 .. MaxItems :
      [](id \in DOMAIN syncQueue => <>(id \notin DOMAIN syncQueue))
\* no failure of the item is waiting to be written to the store
NoFailurePending(id) ==
  \A d \in Drains : ~(drains[d].pc = "update" /\ Current(d).id = id)

\* C11 amended: every item in the store is eventually removed from it or
\* reaches attempts = 5, where drains no longer take it; an item with fewer
\* than 5 attempts and no failure pending, once the remote system answers
\* every call, is eventually delivered and removed.
C11_EventualDelivery ==
  \A id \in 1 .. MaxItems :
    /\ [](id \in DOMAIN syncQueue =>
           <>(\/ id \notin DOMAIN syncQueue
              \/ syncQueue[id].attempts >= MaxAttempts))
    /\ []((/\ Recovered
           /\ id \in DOMAIN syncQueue
           /\ syncQueue[id].attempts < MaxAttempts
           /\ NoFailurePending(id))
          => <>(id \notin DOMAIN syncQueue /\ delivered[id] >= 1))

\* an item that failed in this session was delivered and removed afterwards
C11_Witness ==
  /\ returned.results.success >= 1
  /\ \E j \in 1 .. Len(returned.items) :
       /\ returned.items[j].lastAttempt = Some(1)
       /\ returned.items[j].id \notin DOMAIN syncQueue
       /\ delivered[returned.items[j].id] >= 1
\* C12: an item whose stored attempts is 5 or more stays in the store with
\* every field as it is, whatever step is taken.
C12_PermanentlyFailedStays ==
  [][\A id \in DOMAIN syncQueue :
       syncQueue[id].attempts >= MaxAttempts =>
         /\ id \in DOMAIN syncQueue'
         /\ syncQueue'[id] = syncQueue[id]]_vars

\* C13: a drain requested while another one is active starts no drain of its
\* own then: a step that starts a drain is taken with no drain active.
C13_Coalesced ==
  [][nCalls' > nCalls => Quiescent]_vars
\* C14: however often a queue item is delivered, the remote system holds at
\* most one record made by its deliveries, whatever the item's type.
C14_RedeliverySafe ==
  \A id \in 1 .. MaxItems :
    Cardinality({r \in remote : r.item = id}) <= 1
\* an error the wrapper neither re-authenticates on nor gives up on
Transient(e) == e \in {NetworkError, NotConnected}

\* the k-th call of the operation was made and all calls before it failed
\* with transient errors
AfterTransients(k) ==
  /\ k \in 1 .. Len(lastCall.answers)
  /\ \A j \in 1 .. k - 1 : Transient(lastCall.answers[j])

\* C15: a retryOperation call whose operation fails with a transient error at
\* every call makes exactly 5 calls and throws the error of the fifth; one
\* whose operation succeeds at its k-th call, after k - 1 transient failures,
\* returns after exactly k calls (k <= 5).
C15_BoundedAttempts ==
  LET a == lastCall.answers
      r == lastCall.r
  IN /\ (a # <<>> /\ \A k \in 1 .. Len(a) : Transient(a[k])) =>
          /\ Len(a) = 5
          /\ r.calls = 5
          /\ ~r.ok
          /\ r.error = a[5]
     /\ \A k \in 1 .. Len(a) :
          (AfterTransients(k) /\ a[k] = Ok) =>
            /\ k <= 5
            /\ r.ok
            /\ r.calls = k
            /\ Len(a) = k

\* five network errors, and the call threw
C15_Witness ==
  /\ lastCall.answers = Failures(5)
  /\ ~lastCall.r.ok
  /\ drains[1].pc = "update"

\* C16 as stated: a call of the operation that fails with an expired session
\* is followed by exactly one login and exactly one more call of the
\* operation; if that call fails its error is thrown, with no further call
\* and no delay.
C16_ScenarioE_AsStated ==
  LET a == lastCall.answers
      r == lastCall.r
  IN \A k \in 1 .. Len(a) :
       (AfterTransients(k) /\ a[k] = InvalidSession) =>
         /\ r.reauths = 1
         /\ r.calls = k + 1
         /\ Len(r.delays) = k - 1
         /\ a[k + 1] # Ok => (~r.ok /\ r.error = a[k + 1])

\* C16 amended: a call of the operation that fails with an expired session is
\* followed by exactly one login and no delay; if the login succeeds, by
\* exactly one more call of the operation, whose result is returned and whose
\* error, of any kind, is thrown with no further call; if the login fails, by
\* no call of the operation at all.
C16_ScenarioE ==
  LET a == lastCall.answers
      r == lastCall.r
  IN \A k \in 1 .. Len(a) :
       (AfterTransients(k) /\ a[k] = InvalidSession) =>
         /\ r.reauths = 1
         /\ Len(r.delays) = k - 1
         /\ lastCall.login = "ok" =>
              /\ r.calls = k + 1
              /\ r.ok = (a[k + 1] = Ok)
              /\ a[k + 1] # Ok => r.error = a[k + 1]
         /\ lastCall.login = "failed" =>
              /\ r.calls = k
              /\ ~r.ok

\* the call made after the login failed too, with a transient error
C16_Witness ==
  /\ lastCall.answers = <<InvalidSession, NetworkError>>
  /\ lastCall.login = "ok"
  /\ ~lastCall.r.ok
  /\ lastCall.r.error = NetworkError
\* C17: a call of the operation that fails with a validation error is the
\* last one of its retryOperation call, which throws that error, having waited
\* one delay per transient failure before it and no other, and made no login
\* after it; the drain then counts the item as failed and stores its attempts
\* raised by one, with that error.
C17_ValidationNotRetried ==
  [][LET a == lastCall'.answers
         r == lastCall'.r
     IN /\ \A k \in 1 .. Len(a) :
             a[k] = ValidationError =>
               /\ k = Len(a)
               /\ r.calls = k
               /\ ~r.ok
               /\ r.error = ValidationError
               /\ Len(r.delays) = Cardinality({j \in 1 .. k - 1 : Transient(a[j])})
               /\ r.reauths = Cardinality({j \in 1 .. k - 1 : a[j] = InvalidSession})
        /\ (drains[1].pc = "sync" /\ ~r.ok /\ r.error = ValidationError) =>
             /\ drains'[1].pc = "update"
             /\ drains'[1].results.failed = drains[1].results.failed + 1
             /\ drains'[1].results.success = drains[1].results.success
             /\ drains'[1].changes.attempts = Current(1).attempts + 1
             /\ drains'[1].changes.error = Some(ValidationError)
        /\ (drains[1].pc = "update" /\ drains[1].changes.error = Some(ValidationError)) =>
             /\ Current(1).id \in DOMAIN syncQueue'
             /\ syncQueue'[Current(1).id].attempts = syncQueue[Current(1).id].attempts + 1
             /\ syncQueue'[Current(1).id].error = Some(ValidationError)]_vars

\* a validation error at the second call, recorded by the drain
C17_Witness ==
  /\ lastCall.answers = <<NetworkError, ValidationError>>
  /\ lastCall.r.delays = <<1000>>
  /\ returned.results.failed = 1
  /\ syncQueue[MaxItems].error = Some(ValidationError)
\* what the drain of slot 1 has just taken from the store: its record, or what
\* it returned if it had nothing to do
Taken == IF drains[1].pc = "idle" THEN returned ELSE drains[1]

\* the ids processSyncQueue would take
Eligible == {id \in DOMAIN syncQueue : syncQueue[id].attempts < MaxAttempts}

\* processSyncQueueBatch(batchSize) takes the first min(batchSize, number of
\* eligible items) items of those processSyncQueue would take, in the same
\* order, and counts them in total.
BatchTakesPrefix ==
  \A n \in 1 .. MaxBatch :
    processSyncQueueBatch(1, n) =>
      /\ Taken'.kind = "batch"
      /\ Len(Taken'.items) = Min(n, Cardinality(Eligible))
      /\ Taken'.items = SubSeq(below(syncQueue, MaxAttempts), 1, Len(Taken'.items))
      /\ Taken'.results.total = Min(n, Cardinality(Eligible))

\* what either drain does to the store for the item it is at: the item is
\* deleted after a delivery, and after a failure its attempts is the taken
\* attempts + 1, with lastAttempt and error set
PerItemEffects ==
  LET item == Current(1)
  IN /\ drains[1].pc = "delete" =>
          /\ item.id \notin DOMAIN syncQueue'
          /\ Taken'.results.success = drains[1].results.success + 1
          /\ Taken'.results.failed = drains[1].results.failed
     /\ drains[1].pc = "update" =>
          /\ item.id \in DOMAIN syncQueue'
          /\ syncQueue'[item.id].attempts = item.attempts + 1
          /\ syncQueue'[item.id].lastAttempt # None
          /\ syncQueue'[item.id].error # None
          /\ syncQueue'[item.id].error = Some(lastCall.r.error)
     /\ drains[1].pc = "sync" /\ drains'[1].pc = "update" =>
          /\ drains'[1].results.failed = drains[1].results.failed + 1
          /\ drains'[1].results.success = drains[1].results.success

C19_BatchProgress ==
  /\ [][Cardinality(Eligible') <= Cardinality(Eligible)]_vars
  /\ <>[](Eligible = {})

\* two batches delivered the two items of the store
C19_Witness ==
  /\ returned.kind = "batch"
  /\ Quiescent
  /\ nextId = 3
  /\ delivered[1] = 1 /\ delivered[2] = 1
  /\ syncQueue = <<>>
\* the record carries a lastModified timestamp
HasTimestamp(data) == data.lastModified.rep \in {"number", "string", "Date"}

\* C20: detectConflict returns true exactly when both records carry a
\* lastModified timestamp and the two instants are more than 1000 ms apart.
C20_DetectConflict ==
  resolution.op = "detectConflict" =>
    (resolution.hasConflict <=>
       /\ HasTimestamp(resolution.localData)
       /\ HasTimestamp(resolution.remoteData)
       /\ abs(resolution.localData.lastModified.ms
               - resolution.remoteData.lastModified.ms) > 1000)

\* C21: detectConflict is symmetric: the answer for (local, remote) is the
\* answer for (remote, local).
C21_DetectConflictSymmetric ==
  resolution.op = "detectConflict" =>
    resolution.hasConflict = detectConflict(resolution.remoteData, resolution.localData)

\* a conflict was detected with the local record the older one
C21_Witness ==
  /\ resolution.op = "detectConflict"
  /\ resolution.hasConflict
  /\ resolution.localData.lastModified.ms < resolution.remoteData.lastModified.ms

C23_NoConflictKeepsLocal ==
  (resolution.op = "syncWithConflictResolution" /\ ~resolution.hasConflict) =>
    resolution.result = resolution.localData

\* no conflict between two records whose timestamps are both present and
\* whose other fields differ
C23_Witness ==
  /\ resolution.op = "syncWithConflictResolution"
  /\ ~resolution.hasConflict
  /\ HasTimestamp(resolution.localData) /\ HasTimestamp(resolution.remoteData)
  /\ resolution.localData.lastModified # resolution.remoteData.lastModified
  /\ "totalPrice" \in DOMAIN resolution.localData \cap DOMAIN resolution.remoteData
  /\ resolution.result = resolution.localData

\* C24: every transition from offline to online starts exactly one drain,
\* and after it no two drains are pending at once, however fast the
\* connectivity flaps.
C24_OneDrainPerReconnect ==
  [][(~online /\ online') =>
       /\ nCalls' = nCalls + 1
       /\ \A d, e \in Drains :
            (drains'[d].pc # "idle" /\ drains'[e].pc # "idle") => d = e]_vars

\* what getQueueStatus has to report for a table
StatusOf(table) ==
  LET failed == Cardinality({id \in DOMAIN table : table[id].attempts >= MaxAttempts})
      pending == Cardinality({id \in DOMAIN table : table[id].attempts < MaxAttempts})
  IN [total |-> pending + failed, pending |-> pending, failed |-> failed]

\* C25: what getQueueStatus returns is the number of stored items, of those
\* below the limit and of those at the limit, for the table as it was when
\* the call was made (or, at the latest, as it is when the call returns),
\* also when a drain or an enqueue runs during the call.
C25_StatusConsistent ==
  status.pc = "returned" =>
    status.result \in {StatusOf(status.atCall), StatusOf(status.atReturn)}

\* C26: queueForSync adds exactly one item, with attempts 0, createdAt the
\* clock's reading and a key no stored item has and none had before; it
\* leaves every stored item as it was and makes no remote call, online or
\* offline.
C26_EnqueueFrame ==
  [][nextId' # nextId =>
       /\ \A id \in DOMAIN syncQueue : id < nextId /\ syncQueue'[id] = syncQueue[id]
       /\ DOMAIN syncQueue' = DOMAIN syncQueue \cup {nextId}
       /\ syncQueue'[nextId].id = nextId
       /\ syncQueue'[nextId].attempts = 0
       /\ syncQueue'[nextId].createdAt = now'
       /\ <<remote, delivered, lastCall, drains, dbQueue>>'
            = <<remote, delivered, lastCall, drains, dbQueue>>]_vars

\* offline, next to a permanently failed item, an item enqueued in this
\* session that no drain has taken yet
C26_Witness ==
  /\ ~online
  /\ nCalls = 0
  /\ \E id, old \in DOMAIN syncQueue :
       /\ syncQueue[id].createdAt = now /\ syncQueue[id].attempts = 0
       /\ syncQueue[old].attempts = MaxAttempts

\* drain d goes on to the delivery of its next item in this step
BeginsNext(d) ==
  /\ drains[d].i >= 1
  /\ drains'[d].pc = "sync"
  /\ drains'[d].i = drains[d].i + 1

\* C27: within a drain the items are handled one after the other: when the
\* delivery of the next item begins the call for the item before has
\* settled, the table has run that item's delete (after a success) or update
\* of attempts (after a failure), no write of the drain is pending, and
\* every item before has been counted as a success or a failure.
C27_StrictlySequential ==
  [][\A d \in Drains :
       BeginsNext(d) =>
         LET item == Current(d)
         IN /\ drains[d].pc \in {"delete", "update"}
            /\ drains[d].pc = "delete" => item.id \notin DOMAIN syncQueue'
            /\ (drains[d].pc = "update" /\ item.id \in DOMAIN syncQueue) =>
                 syncQueue'[item.id].attempts = item.attempts + 1
            /\ \A k \in 1 .. Len(dbQueue') : dbQueue'[k] # d
            /\ drains'[d].results.success + drains'[d].results.failed
                 = drains[d].i]_vars

\* a drain is delivering its second item after its first was delivered and
\* deleted, while another drain is pending
C27_Witness ==
  \E d, e \in Drains :
    /\ d # e /\ Active(e)
    /\ drains[d].pc = "sync" /\ drains[d].i = 2
    /\ drains[d].results.success = 1
    /\ drains[d].items[1].id \notin DOMAIN syncQueue

\* no drain is pending and both items are stored
BothLeft == ~Active(1) /\ DOMAIN syncQueue = {1, 2}

\* the calls of the bid so far all ended in transient failures
OnlyTransient == delivered[1] = 0 /\ syncQueue[1].error \in {None, Some(NetworkError)}

RECURSIVE SumOf(_)
SumOf(s) == IF s = <<>> THEN 0 ELSE Head(s) + SumOf(Tail(s))

\* the call that settled last made its five tries and all failed transiently
Exhausted == lastCall.answers = Failures(Len(retryDelays))

\* after a call that failed, the table counts the failure on the item and
\* the drain goes on to its next item, or returns if there is none
FailureCountedAndDrainGoesOn ==
  LET dr == drains[1]
      item == Current(1)
  IN /\ dr.results.failed >= 1
     /\ syncQueue'[item.id].attempts = item.attempts + 1
     /\ IF dr.i < Len(dr.items)
          THEN drains'[1].pc = "sync" /\ drains'[1].i = dr.i + 1
          ELSE drains'[1].pc = "idle" /\ returned'.results.failed = dr.results.failed

\* C29 as stated: no delivery waits more than 31 s of backoff, and one that
\* fails at all its five attempts waits 1 + 2 + 4 + 8 + 16 = 31 s; the item
\* is then marked failed and the drain goes on with the next item.
C29_WorstCase_AsStated ==
  /\ [](/\ SumOf(lastCall.r.delays) <= 31000
        /\ Exhausted => SumOf(lastCall.r.delays) = 31000)
  /\ [][(drains[1].pc = "update" /\ Exhausted) => FailureCountedAndDrainGoesOn]_vars

\* C29: no delivery waits more than 15 s of backoff, and one that fails at
\* all its five attempts waits 1 + 2 + 4 + 8 = 15 s (the 16 s entry is never
\* waited); the item is then marked failed and the drain goes on with the
\* next item.
C29_WorstCase ==
  /\ [](/\ SumOf(lastCall.r.delays) <= 15000
        /\ Exhausted => SumOf(lastCall.r.delays) = 15000 /\ ~lastCall.r.ok)
  /\ [][(drains[1].pc = "update" /\ Exhausted) => FailureCountedAndDrainGoesOn]_vars

\* the bid failed at all five attempts, the failure is counted in the table
\* and the drain is delivering the item behind it
C29_Witness ==
  /\ Exhausted
  /\ drains[1].pc = "sync" /\ drains[1].i = 2
  /\ drains[1].results.failed = 1
  /\ syncQueue[1].attempts = 1 /\ syncQueue[1].error = Some(NetworkError)

\* C30: a delay is waited only after a failed attempt that another attempt
\* follows: the delay after the k-th failed attempt is 1, 2, 4, 8 s for
\* k = 1 .. 4, none is waited after a successful attempt or after the last
\* attempt, and every transient failure that another attempt follows is
\* followed by its delay.
C30_DelaysBetweenAttempts ==
  LET a == lastCall.answers
      delays == lastCall.r.delays
  IN /\ \A k \in 1 .. Len(delays) :
          /\ delays[k] = 1000 * 2 ^ (k - 1)
          /\ a[k] # Ok
          /\ k < Len(a)
     /\ Len(delays) <= 4
     /\ \A k \in 1 .. Len(a) - 1 :
          (AfterTransients(k) /\ Transient(a[k])) => Len(delays) >= k

\* a call that succeeded at its third attempt, after two delays
C30_Witness ==
  /\ lastCall.answers = <<NetworkError, NetworkError, Ok>>
  /\ lastCall.r.ok
  /\ lastCall.r.delays = <<1000, 2000>>
  /\ drains[1].pc = "delete"

\* C31: when the login made after an expired session fails, the operation
\* is not called again and no delay is waited (the calls end with the one
\* that met the expired session, the delays are those of the transient
\* failures before it); the login's error is thrown as it is, and the drain
\* counts one failure for the item: attempts raised by one, that error
\* stored.
C31_ReauthFailurePropagates ==
  /\ [](lastCall.login = "failed" =>
          LET a == lastCall.answers
              r == lastCall.r
          IN /\ a # <<>> /\ a[Len(a)] = InvalidSession
             /\ r.calls = Len(a)
             /\ \A k \in 1 .. Len(a) - 1 : Transient(a[k])
             /\ Len(r.delays) = Len(a) - 1
             /\ r.reauths = 1
             /\ ~r.ok /\ r.error = LoginFailed)
  /\ [][(drains[1].pc = "update" /\ lastCall.login = "failed") =>
          LET item == Current(1)
          IN /\ drains[1].results.failed = 1
             /\ syncQueue'[item.id].attempts = item.attempts + 1
             /\ syncQueue'[item.id].error = Some(LoginFailed)]_vars

\* after two network errors the session had expired and the login failed;
\* the failure is in the table
C31_Witness ==
  /\ lastCall.answers = <<NetworkError, NetworkError, InvalidSession>>
  /\ lastCall.login = "failed"
  /\ lastCall.r.delays = <<1000, 2000>>
  /\ ~Active(1)
  /\ \E id \in DOMAIN syncQueue : syncQueue[id].error = Some(LoginFailed)

\* the table runs the write of drain d in this step
Writes(d) == dbQueue # <<>> /\ Head(dbQueue) = d /\ dbQueue' = Tail(dbQueue)

\* C32: a stored item changes only when the table runs the update of a
\* drain whose delivery of that item failed: attempts becomes the attempts
\* the drain read plus one, lastAttempt and error are set, and id, type,
\* operation, data and createdAt stay; no other item changes in that step;
\* and an item leaves the table only when the table runs the delete of a
\* drain that delivered it.
C32_FailureFrame ==
  [][\A id \in DOMAIN syncQueue :
       /\ id \notin DOMAIN syncQueue' =>
            \E d \in Drains :
              /\ Writes(d) /\ drains[d].pc = "delete" /\ Current(d).id = id
              /\ \A other \in DOMAIN syncQueue \ {id} :
                   other \in DOMAIN syncQueue' /\ syncQueue'[other] = syncQueue[other]
       /\ (id \in DOMAIN syncQueue' /\ syncQueue'[id] # syncQueue[id]) =>
            \E d \in Drains :
              /\ Writes(d) /\ drains[d].pc = "update" /\ Current(d).id = id
              /\ syncQueue'[id] =
                   [syncQueue[id] EXCEPT !.attempts = Current(d).attempts + 1,
                                         !.lastAttempt = drains[d].changes.lastAttempt,
                                         !.error = drains[d].changes.error]
              /\ drains[d].changes.lastAttempt # None
              /\ drains[d].changes.error # None
              /\ drains[d].kind = "all" =>
                   drains[d].changes.error =
                     Some(drains[d].results.errors[Len(drains[d].results.errors)].error)
              /\ \A other \in DOMAIN syncQueue \ {id} :
                   other \in DOMAIN syncQueue' /\ syncQueue'[other] = syncQueue[other]]_vars

\* an item failed in this session next to an item that did not
C32_Witness ==
  \E id, other \in DOMAIN syncQueue :
    /\ id # other
    /\ syncQueue[id].lastAttempt = Some(now) /\ syncQueue[id].createdAt = 0
    /\ syncQueue[id].attempts = 1
    /\ syncQueue[other].attempts = 0 /\ syncQueue[other].lastAttempt = None

\* C36: every stored item has attempts between 0 and 5, whatever is
\* enqueued and however the drains overlap.
C36_AttemptsBounded ==
  \A id \in DOMAIN syncQueue :
    syncQueue[id].attempts >= 0 /\ syncQueue[id].attempts <= 5

\* two drains both failed to deliver an item that was one failure from the
\* limit, and it is at the limit
C36_Witness ==
  /\ \A d \in Drains : ~Active(d)
  /\ nCalls = 2
  /\ returned.kind = "all" /\ returned.results.failed = 1
  /\ \E id \in DOMAIN syncQueue :
       /\ syncQueue[id].attempts = 5 /\ syncQueue[id].lastAttempt = Some(now)
       /\ returned.results.errors[1].item.id = id
       /\ returned.results.errors[1].item.attempts = 4
  /\ lastCall.answers # <<>>

\* C37: an item that left the table never comes back: the update of an item
\* that is no longer stored and the delete of an item that is no longer
\* stored leave the table as it is.
C37_DeletedStaysDeleted ==
  [][/\ \A id \in 1 .. nextId - 1 :
          id \notin DOMAIN syncQueue => id \notin DOMAIN syncQueue'
     /\ \A d \in Drains :
          (Writes(d) /\ Current(d).id \notin DOMAIN syncQueue) =>
            syncQueue' = syncQueue]_vars

\* a drain has counted a failure for an item that another drain delivered
\* and deleted
C37_Witness ==
  /\ \A d \in Drains : ~Active(d)
  /\ returned.kind = "all" /\ returned.results.failed = 1
  /\ LET id == returned.results.errors[1].item.id
     IN id \notin DOMAIN syncQueue /\ delivered[id] = 1

\* the invocations 1 .. n of the run all throw
AllThrow(run, n) == \A k \in 1 .. n : run[k] = "throws"

\* C33: processSyncQueueWithRetry invokes processSyncQueue until an
\* invocation returns, maxRetries times at most: it returns what the first
\* invocation that returns returned, with no invocation after it, having
\* waited retryDelay once after every invocation before it; and when
\* maxRetries invocations have thrown it throws the error of the last,
\* having waited retryDelay between them only.
C33_WithRetry ==
  helper.op = "processSyncQueueWithRetry" =>
    LET n == helper.maxRetries
        r == helper.r
    IN /\ r.calls <= n
       /\ \A k \in 1 .. n :
            (AllThrow(helper.run, k - 1) /\ helper.run[k] = "returns") =>
              /\ r.ended = "returned" /\ r.value = Some(k)
              /\ r.calls = k
              /\ r.delays = Repeat(helper.delay, k - 1)
       /\ AllThrow(helper.run, n) =>
            /\ r.ended = "threw"
            /\ r.calls = n
            /\ n >= 1 => r.value = Some(n) /\ r.delays = Repeat(helper.delay, n - 1)

\* the third invocation returned after two had thrown
C33_Witness ==
  /\ helper.op = "processSyncQueueWithRetry"
  /\ helper.maxRetries = 3
  /\ helper.run = <<"throws", "throws", "returns">>
  /\ helper.r.ended = "returned" /\ helper.r.calls = 3
  /\ Len(helper.r.delays) = 2

\* C34 as stated: retryWithExponentialBackoff invokes an operation that
\* always fails maxRetries times, waits maxRetries - 1 delays, the i-th
\* being initialDelay * 2^(i-1), and throws the last error; it stops at the
\* first success with no further delay.
C34_ExponentialBackoff_AsStated ==
  helper.op = "retryWithExponentialBackoff" =>
    LET n == helper.maxRetries
        r == helper.r
    IN /\ AllThrow(helper.run, n) =>
            /\ r.calls = n
            /\ Len(r.delays) = n - 1
            /\ \A i \in 1 .. Len(r.delays) : r.delays[i] = helper.delay * 2 ^ (i - 1)
            /\ r.ended = "threw" /\ r.value = Some(n)
       /\ \A k \in 1 .. n :
            (AllThrow(helper.run, k - 1) /\ helper.run[k] = "returns") =>
              /\ r.ended = "returned" /\ r.value = Some(k)
              /\ r.calls = k
              /\ Len(r.delays) = k - 1

\* C34: the same for maxRetries >= 1.
C34_ExponentialBackoff ==
  (helper.op = "retryWithExponentialBackoff" /\ helper.maxRetries >= 1) =>
    LET n == helper.maxRetries
        r == helper.r
    IN /\ AllThrow(helper.run, n) =>
            /\ r.calls = n
            /\ Len(r.delays) = n - 1
            /\ \A i \in 1 .. Len(r.delays) : r.delays[i] = helper.delay * 2 ^ (i - 1)
            /\ r.ended = "threw" /\ r.value = Some(n)
       /\ \A k \in 1 .. n :
            (AllThrow(helper.run, k - 1) /\ helper.run[k] = "returns") =>
              /\ r.ended = "returned" /\ r.value = Some(k)
              /\ r.calls = k
              /\ Len(r.delays) = k - 1

\* three failures with maxRetries 3 and initialDelay 100: delays 100, 200
C34_Witness ==
  /\ helper.op = "retryWithExponentialBackoff"
  /\ helper.maxRetries = 3 /\ helper.delay = 100
  /\ AllThrow(helper.run, 3)
  /\ helper.r.ended = "threw"
  /\ helper.r.delays = <<100, 200>>

\* C35: when a conflict is resolved between a local and a remote record
\* that both carry an id, the merged record has the local record's id.
C35_MergedKeepsLocalId ==
  (/\ resolution.op = "syncWithConflictResolution"
   /\ resolution.hasConflict
   /\ "id" \in DOMAIN resolution.localData \cap DOMAIN resolution.remoteData) =>
    resolution.result.id = resolution.localData.id

\* C38: in a call of the retry wrapper the session is renewed once at most
\* and the operation is invoked six times at most: five times at most by
\* the loop, and once more only after a renewal that succeeded.
C38_ReauthOnceSixCalls ==
  LET r == lastCall.r
  IN /\ r.reauths <= 1
     /\ r.calls <= Len(retryDelays) + 1
     /\ r.calls = Len(retryDelays) + 1 => (r.reauths = 1 /\ lastCall.login = "ok")
     /\ Len(lastCall.answers) = r.calls

\* four network errors, an expired session at the fifth attempt, a login and
\* a sixth invocation, which failed too
C38_Witness ==
  /\ lastCall.answers =
       <<NetworkError, NetworkError, NetworkError, NetworkError, InvalidSession,
         InvalidSession>>
  /\ lastCall.r.calls = 6
  /\ lastCall.r.reauths = 1
  /\ ~lastCall.r.ok

\* the remote object the items of a type are written to
ObjectOf(type) ==
  CASE type = "property" -> "Property__c"
    [] type = "attachment" -> "Attachment"
    [] OTHER -> "Quote__c"

\* C39: what a delivery does in the remote system depends on the item's type
\* and not on its operation: no step removes a remote record, whatever the
\* operation of the item delivered ('delete' included); the delivery of a
\* property, quote or bid item leaves the record upserted under the item's
\* external id in the object of its type, making it only if there was none,
\* and the delivery of an attachment item creates one Attachment record.
C39_TypeDecidesRemoteCall ==
  [][/\ remote \subseteq remote'
     /\ (drains[1].pc = "sync" /\ drains'[1].pc = "delete") =>
          LET item == Current(1)
              made == remote' \ remote
          IN /\ \A r \in made : r.object = ObjectOf(item.type) /\ r.item = item.id
             /\ IF item.type = "attachment"
                  THEN Cardinality(made) = 1 /\ \A r \in made : r.externalId = None
                  ELSE /\ \E r \in remote' : /\ r.object = ObjectOf(item.type)
                                              /\ r.externalId = Some(item.data)
                       /\ Cardinality(made) =
                            IF \E r \in remote : /\ r.object = ObjectOf(item.type)
                                                 /\ r.externalId = Some(item.data)
                              THEN 0 ELSE 1]_vars

\* a quote item enqueued with operation 'delete' was delivered, and the quote
\* the earlier session upserted is still in the remote system
C39_Witness ==
  /\ drains[1].pc = "delete"
  /\ Current(1).type = "quote"
  /\ Current(1).operation = "delete"
  /\ delivered[Current(1).id] = 1
  /\ EarlierQuote \in remote

\* the ids of the items the drain that returned last had dequeued
Dequeued == {returned.items[i].id : i \in 1 .. Len(returned.items)}

\* the delivery of every item the drain that returned last had dequeued was
\* tried and failed, and its attempts were raised by one
EveryDequeuedFailed ==
  /\ returned.results.total = Len(returned.items)
  /\ returned.results.success = 0
  /\ returned.results.failed = Len(returned.items)
  /\ \A i \in 1 .. Len(returned.items) :
       LET item == returned.items[i]
       IN /\ item.id \in DOMAIN syncQueue
          /\ syncQueue[item.id].attempts = item.attempts + 1

\* every stored item is permanently failed and no drain takes it any more
AllPermanentlyFailed ==
  /\ \A id \in DOMAIN syncQueue : syncQueue[id].attempts >= MaxAttempts
  /\ below(syncQueue, MaxAttempts) = <<>>

\* C40 as stated: a drain of either kind called while isOnline() is false
\* tries the delivery of every eligible item and raises attempts at each
\* failure, and five drains leave every stored item permanently failed.
C40_OfflineDrains_AsStated ==
  (~isOnline /\ Quiescent /\ returned.kind # "none") =>
    /\ EveryDequeuedFailed
    /\ \A id \in DOMAIN syncQueue :
         id \in Dequeued \/ syncQueue[id].attempts >= MaxAttempts
    /\ nCalls >= MaxAttempts => AllPermanentlyFailed

\* C40: a drain called while isOnline() is false tries the delivery of every
\* item it dequeued (processSyncQueue every eligible item, processSyncQueueBatch
\* batchSize of them at most) and raises attempts at each failure, and five
\* processSyncQueue calls, each awaited, leave every stored item permanently
\* failed.
C40_OfflineDrains ==
  (~isOnline /\ Quiescent /\ returned.kind # "none") =>
    /\ EveryDequeuedFailed
    /\ returned.kind = "all" =>
         \A id \in DOMAIN syncQueue :
           id \in Dequeued \/ syncQueue[id].attempts >= MaxAttempts
    /\ returned.kind = "batch" => Len(returned.items) <= MaxBatch
    /\ nCalls >= MaxAttempts => AllPermanentlyFailed

\* offline, the fifth processSyncQueue call has returned: it had dequeued
\* every stored item at four attempts, and now all are permanently failed
C40_Witness ==
  /\ ~isOnline
  /\ Quiescent
  /\ nCalls = MaxAttempts
  /\ returned.kind = "all"
  /\ Dequeued = DOMAIN syncQueue
  /\ Cardinality(DOMAIN syncQueue) = MaxItems
  /\ \A i \in 1 .. Len(returned.items) : returned.items[i].attempts = MaxAttempts - 1
  /\ AllPermanentlyFailed

====
